---------------------------- MODULE Spec2Model ----------------------------
(***************************************************************************)
(* WorkStream Monitor: the task store kept in the Streamlit session state  *)
(* (task_manager.py), its CSV persistence and the derived-metrics pass.    *)
(*                                                                         *)
(* Text is a sequence of character tokens; " " is the whitespace token.    *)
(* Python's None and pandas' NaN are the one-token texts None and NaN,     *)
(* whose tokens are outside the alphabet of the inputs.                    *)
(***************************************************************************)
EXTENDS Integers, Sequences, FiniteSets, TLC

\* ---- bounds of the model ----
MaxOps == 3          \* handler calls in one session
MaxClock == 3        \* last tick of the wall clock
TicksPerDay == 2     \* clock ticks in one day
MaxRows == 2         \* rows of a frame handed to with_derived_metrics

\* ---- constants of task_manager.py ----
None == <<"None">>
NaN == <<"NaN">>
VALID_STATUSES == << <<"Planned">>, <<"In Progress">>, <<"Blocked">>, <<"Completed">> >>
DEFAULT_INACTIVITY_THRESHOLD_DAYS == 3
TASKS_KEY == "tasks_df"
THRESHOLD_KEY == "inactivity_threshold_days"
required_cols == {"task_id", "title", "description", "owner", "status",
                  "created_at", "last_updated_at"}

Range(s) == {s[i] : i \in 1..Len(s)}

\* ---- text helpers ----
IsSpace(c) == c = " "

RECURSIVE lstrip(_)
lstrip(s) == IF s # <<>> /\ IsSpace(Head(s)) THEN lstrip(Tail(s)) ELSE s

RECURSIVE rstrip(_)
rstrip(s) == IF s # <<>> /\ IsSpace(s[Len(s)]) THEN rstrip(SubSeq(s, 1, Len(s) - 1)) ELSE s

\* str.strip()
strip(s) == rstrip(lstrip(s))

\* Python truthiness of an Optional[str]: None and "" are falsy
Falsy(s) == s = None \/ s = <<>>

\* datetime.isoformat() of the instant n, and datetime.fromisoformat
isoformat(n) == <<"T", ToString(n)>>
IsIso(s) == \E n \in 0..(MaxClock + 1) : isoformat(n) = s
fromisoformat(s) == CHOOSE n \in 0..(MaxClock + 1) : isoformat(n) = s

\* str(uuid.uuid4()): the k-th identifier drawn in the session
uuid4(k) == <<"uuid", ToString(k)>>

\* (a - b).days of two datetimes: whole days, rounded down
days(a, b) == (a - b) \div TicksPerDay


\* ---- inputs of the handlers ----
CreateTitles == {<<>>, <<" ">>, <<" ", "a", " ">>}
CreateDescriptions == {None, <<>>, <<"d", " ">>}
CreateOwners == {<<" ">>, <<"o">>}
CreateStatuses == {<<"Planned">>, <<"Unknown">>}
UpdateTitles == {None, <<" ">>, <<"b", " ">>}
UpdateDescriptions == {None, <<" ", "e">>}
UpdateOwners == {None, <<>>, <<"p">>}
UpdateStatuses == {None, <<"Blocked">>, <<"Done">>}
ThresholdInputs == {-1, 0, 1, 2}

\* ---- state ----
VARIABLES
    session_keys,               \* keys present in st.session_state
    tasks_df,                   \* st.session_state["tasks_df"]: the rows of the frame
    inactivity_threshold_days,  \* st.session_state["inactivity_threshold_days"]
    csv_file,                   \* the file at the CSV path
    clock,                      \* datetime.utcnow(), in ticks
    uuid_count,                 \* identifiers drawn from uuid.uuid4() so far
    ops,                        \* handler calls made in the session
    ret,                        \* the last event: its name, arguments, return value, st.error/st.warning lines
    pc,                         \* position inside with_derived_metrics
    view                        \* the frame with_derived_metrics is building

vars == <<session_keys, tasks_df, inactivity_threshold_days, csv_file, clock,
          uuid_count, ops, ret, pc, view>>

store == <<session_keys, tasks_df, inactivity_threshold_days>>

NoFile == [exists |-> FALSE, columns |-> {}, rows |-> <<>>]
EmptyView == [rows |-> <<>>, age_days |-> <<>>, inactivity_days |-> <<>>,
              at_risk |-> <<>>, is_blocked |-> <<>>, is_long_running |-> <<>>]
Ret(op, args, value, messages) == [op |-> op, args |-> args, value |-> value, messages |-> messages]

\* ---- session state helpers ----
\* _init_session_state: the frame and the threshold it leaves in the session
init_tasks_df == IF TASKS_KEY \in session_keys THEN tasks_df ELSE <<>>
init_threshold == IF THRESHOLD_KEY \in session_keys THEN inactivity_threshold_days
                  ELSE DEFAULT_INACTIVITY_THRESHOLD_DAYS
init_keys == session_keys \cup {TASKS_KEY, THRESHOLD_KEY}

\* get_tasks_df returns a copy: what the session holds after the caller has edited
\* the returned frame in place and returned without _set_tasks_df
session_frame_shared(stored, edited) == edited

session_frame_after_edit(stored, edited) == stored

\* ---- validation ----
STATUS_MESSAGE == "Status must be one of: Planned, In Progress, Blocked, Completed"

validate_task_fields_untrimmed(title, owner, status, description) ==
    (IF Falsy(title) THEN <<"Title is required.">> ELSE <<>>)
    \o (IF Falsy(owner) THEN <<"Owner is required.">> ELSE <<>>)
    \o (IF status \notin Range(VALID_STATUSES) THEN <<STATUS_MESSAGE>> ELSE <<>>)
    \o (IF description = None THEN <<"Description cannot be None.">> ELSE <<>>)

validate_task_fields(title, owner, status, description) ==
    (IF Falsy(title) \/ strip(title) = <<>> THEN <<"Title is required.">> ELSE <<>>)
    \o (IF Falsy(owner) \/ strip(owner) = <<>> THEN <<"Owner is required.">> ELSE <<>>)
    \o (IF status \notin Range(VALID_STATUSES) THEN <<STATUS_MESSAGE>> ELSE <<>>)
    \o (IF description = None THEN <<"Description cannot be None.">> ELSE <<>>)

Init ==
    /\ session_keys = {}
    /\ tasks_df = <<>>
    /\ inactivity_threshold_days = 0
    /\ csv_file = NoFile
    /\ clock = 0
    /\ uuid_count = 0
    /\ ops = 0
    /\ ret = Ret("start", <<>>, "None", <<>>)
    /\ pc = "idle"
    /\ view = EmptyView

\* one more handler call of the session may start
CanCall == pc = "idle" /\ ops < MaxOps

\* ---- CRUD ----
new_task_same_id(title, description, owner, status, now, id) ==
    [task_id |-> uuid4(1), title |-> strip(title), description |-> strip(description),
     owner |-> strip(owner), status |-> status, created_at |-> now, last_updated_at |-> now]

new_task(title, description, owner, status, now, id) ==
    [task_id |-> id, title |-> strip(title), description |-> strip(description),
     owner |-> strip(owner), status |-> status, created_at |-> now, last_updated_at |-> now]

create_task(title, description, owner, status) ==
    /\ CanCall
    /\ ops' = ops + 1
    /\ session_keys' = init_keys
    /\ inactivity_threshold_days' = init_threshold
    /\ LET errors == validate_task_fields(title, owner, status, description) IN
       IF errors # <<>>
       THEN /\ tasks_df' = init_tasks_df
            /\ uuid_count' = uuid_count
            /\ ret' = Ret("create_task", <<title, description, owner, status>>, "None", errors)
       ELSE /\ tasks_df' = Append(init_tasks_df,
                                  new_task(title, description, owner, status,
                                           isoformat(clock), uuid4(uuid_count + 1)))
            /\ uuid_count' = uuid_count + 1
            /\ ret' = Ret("create_task", <<title, description, owner, status>>, "dict", <<>>)
    /\ UNCHANGED <<csv_file, clock, pc, view>>

\* df.index[df["task_id"] == task_id]: the positions of the rows with that id
index_of(df, task_id) == {i \in 1..Len(df) : df[i].task_id = task_id}

touch_column(df, i, now) == [k \in 1..Len(df) |-> [df[k] EXCEPT !.last_updated_at = now]]

\* df.at[i, "last_updated_at"] = datetime.utcnow().isoformat()
touch(df, i, now) == [df EXCEPT ![i].last_updated_at = now]

\* update_task run on the copy df of the session frame: the value returned, the line
\* reported and the frame the session holds afterwards
update_task_run(df, task_id, title, description, owner, status, now) ==
    IF df = <<>>
    THEN [value |-> "False", messages |-> <<"No tasks available to update.">>, stored |-> df]
    ELSE IF index_of(df, task_id) = {}
    THEN [value |-> "False", messages |-> <<"Task not found.">>, stored |-> df]
    ELSE
    LET i == CHOOSE k \in index_of(df, task_id) : \A m \in index_of(df, task_id) : k <= m
        df1 == IF title # None THEN [df EXCEPT ![i].title = strip(title)] ELSE df
        df2 == IF description # None
               THEN [df1 EXCEPT ![i].description = strip(IF Falsy(description) THEN <<>> ELSE description)]
               ELSE df1
        df3 == IF owner # None THEN [df2 EXCEPT ![i].owner = strip(owner)] ELSE df2
        df4 == IF status # None THEN [df3 EXCEPT ![i].status = status] ELSE df3
        df5 == touch(df4, i, now)
    IN  IF title # None /\ strip(title) = <<>>
        THEN [value |-> "False", messages |-> <<"Title cannot be empty.">>,
              stored |-> session_frame_after_edit(df, df)]
        ELSE IF owner # None /\ strip(owner) = <<>>
        THEN [value |-> "False", messages |-> <<"Owner cannot be empty.">>,
              stored |-> session_frame_after_edit(df, df2)]
        ELSE IF status # None /\ status \notin Range(VALID_STATUSES)
        THEN [value |-> "False", messages |-> <<STATUS_MESSAGE>>,
              stored |-> session_frame_after_edit(df, df3)]
        ELSE [value |-> "True", messages |-> <<>>, stored |-> df5]

\* the identifiers a caller may pass: the first two drawn in the session, the one of
\* an imported file, one that no task has
TaskIdInputs == {uuid4(1), uuid4(2), <<"ext">>, <<"missing">>}

update_task(task_id, title, description, owner, status) ==
    /\ CanCall
    /\ ops' = ops + 1
    /\ session_keys' = init_keys
    /\ inactivity_threshold_days' = init_threshold
    /\ LET r == update_task_run(init_tasks_df, task_id, title, description, owner,
                                status, isoformat(clock)) IN
       /\ tasks_df' = r.stored
       /\ ret' = Ret("update_task", <<task_id, title, description, owner, status>>, r.value, r.messages)
    /\ UNCHANGED <<csv_file, clock, uuid_count, pc, view>>

\* ---- threshold ----
\* int(st.session_state[...]) or DEFAULT, read after _init_session_state
get_inactivity_threshold_days ==
    IF init_threshold # 0 THEN init_threshold ELSE DEFAULT_INACTIVITY_THRESHOLD_DAYS

set_inactivity_threshold_days_nonnegative(d) ==
    /\ CanCall
    /\ ops' = ops + 1
    /\ IF d < 0
       THEN /\ UNCHANGED <<session_keys, inactivity_threshold_days>>
            /\ ret' = Ret("set_inactivity_threshold_days", <<d>>, "None",
                          <<"Inactivity threshold must be a positive integer.">>)
       ELSE /\ session_keys' = session_keys \cup {THRESHOLD_KEY}
            /\ inactivity_threshold_days' = d
            /\ ret' = Ret("set_inactivity_threshold_days", <<d>>, "None", <<>>)
    /\ UNCHANGED <<tasks_df, csv_file, clock, uuid_count, pc, view>>

set_inactivity_threshold_days(d) ==
    /\ CanCall
    /\ ops' = ops + 1
    /\ IF d <= 0
       THEN /\ UNCHANGED <<session_keys, inactivity_threshold_days>>
            /\ ret' = Ret("set_inactivity_threshold_days", <<d>>, "None",
                          <<"Inactivity threshold must be a positive integer.">>)
       ELSE /\ session_keys' = session_keys \cup {THRESHOLD_KEY}
            /\ inactivity_threshold_days' = d
            /\ ret' = Ret("set_inactivity_threshold_days", <<d>>, "None", <<>>)
    /\ UNCHANGED <<tasks_df, csv_file, clock, uuid_count, pc, view>>

\* ---- reset ----
reset_all_tasks_and_settings ==
    /\ CanCall
    /\ ops' = ops + 1
    /\ session_keys' = {TASKS_KEY, THRESHOLD_KEY}
    /\ tasks_df' = <<>>
    /\ inactivity_threshold_days' = DEFAULT_INACTIVITY_THRESHOLD_DAYS
    /\ ret' = Ret("reset_all_tasks", <<>>, "None", <<>>)
    /\ UNCHANGED <<csv_file, clock, uuid_count, pc, view>>

reset_all_tasks ==
    /\ CanCall
    /\ ops' = ops + 1
    /\ session_keys' = session_keys \cup {TASKS_KEY}
    /\ tasks_df' = <<>>
    /\ ret' = Ret("reset_all_tasks", <<>>, "None", <<>>)
    /\ UNCHANGED <<inactivity_threshold_days, csv_file, clock, uuid_count, pc, view>>

\* ---- persistence (CSV) ----
\* DataFrame.to_csv(path, index=False): a header of the frame's columns and one line
\* per row; a missing value (NaN) is written as the empty field
to_csv(df) ==
    [exists |-> TRUE, columns |-> required_cols,
     rows |-> [i \in 1..Len(df) |->
                  [c \in required_cols |-> IF df[i][c] = NaN THEN <<>> ELSE df[i][c]]]]

\* pd.read_csv(path): the columns of the header; the empty field is read as NaN, any
\* other field of the alphabet (no digits, no NA marker) as the text it is
read_csv(file) ==
    [i \in 1..Len(file.rows) |->
        [c \in file.columns |-> IF file.rows[i][c] = <<>> THEN NaN ELSE file.rows[i][c]]]

\* the frame load_tasks_from_csv stores: a missing required column is filled with "",
\* the columns are cut down to the required ones
loaded_frame(file) ==
    LET df == read_csv(file) IN
    [i \in 1..Len(df) |->
        [c \in required_cols |-> IF c \in file.columns THEN df[i][c] ELSE <<>>]]

save_tasks_to_csv ==
    /\ CanCall
    /\ ops' = ops + 1
    /\ session_keys' = init_keys
    /\ inactivity_threshold_days' = init_threshold
    /\ tasks_df' = init_tasks_df
    /\ \/ /\ csv_file' = to_csv(init_tasks_df)
          /\ ret' = Ret("save_tasks_to_csv", <<>>, "True", <<>>)
       \/ /\ csv_file' = csv_file        \* the path cannot be created or opened
          /\ ret' = Ret("save_tasks_to_csv", <<>>, "False", <<"Failed to save tasks to CSV">>)
    /\ UNCHANGED <<clock, uuid_count, pc, view>>

load_tasks_from_csv ==
    /\ CanCall
    /\ ops' = ops + 1
    /\ IF ~csv_file.exists
       THEN /\ UNCHANGED <<session_keys, tasks_df>>
            /\ ret' = Ret("load_tasks_from_csv", <<>>, "False", <<"CSV file not found.">>)
       ELSE IF csv_file.columns = {}          \* no header to parse: read_csv raises
       THEN /\ UNCHANGED <<session_keys, tasks_df>>
            /\ ret' = Ret("load_tasks_from_csv", <<>>, "False", <<"Failed to load tasks from CSV">>)
       ELSE /\ session_keys' = session_keys \cup {TASKS_KEY}
            /\ tasks_df' = loaded_frame(csv_file)
            /\ ret' = Ret("load_tasks_from_csv", <<>>, "True", <<>>)
    /\ UNCHANGED <<inactivity_threshold_days, csv_file, clock, uuid_count, pc, view>>

\* files the user may have put at the CSV path by other means: one without a status
\* column, one with a status the application does not know, one without content; their
\* timestamps were written before the session began
ExternalRow(columns, status) ==
    [c \in columns |->
        CASE c = "task_id" -> <<"ext">>
          [] c = "title" -> <<"x">>
          [] c = "description" -> <<>>
          [] c = "owner" -> <<"o">>
          [] c = "status" -> status
          [] OTHER -> isoformat(0)]

ExternalFiles ==
    {[exists |-> TRUE, columns |-> required_cols \ {"status"},
      rows |-> <<ExternalRow(required_cols \ {"status"}, <<>>)>>],
     [exists |-> TRUE, columns |-> required_cols,
      rows |-> <<ExternalRow(required_cols, <<"Unknown">>)>>],
     [exists |-> TRUE, columns |-> {}, rows |-> <<>>]}

PlaceCsvFile(file) ==
    /\ CanCall
    /\ ops' = ops + 1
    /\ csv_file' = file
    /\ ret' = Ret("PlaceCsvFile", <<>>, "None", <<>>)
    /\ UNCHANGED <<session_keys, tasks_df, inactivity_threshold_days, clock, uuid_count,
                   pc, view>>

\* ---- demo data ----
demo_task(title, description, owner, status, now, id) ==
    [task_id |-> id, title |-> title, description |-> description, owner |-> owner,
     status |-> status, created_at |-> now, last_updated_at |-> now]

demo(now, k) ==
    << demo_task(<<"Implement", " ", "auth", " ", "stub">>,
                 <<"Placeholder", " ", "for", " ", "future", " ", "auth", " ", "integration">>,
                 <<"Alice">>, <<"Planned">>, now, uuid4(k + 1)),
       demo_task(<<"Refactor", " ", "data", " ", "layer">>,
                 <<"Separate", " ", "persistence", " ", "adapter">>,
                 <<"Bob">>, <<"In Progress">>, now, uuid4(k + 2)),
       demo_task(<<"Fix", " ", "flaky", " ", "tests">>,
                 <<"Stabilize", " ", "CI", " ", "failures">>,
                 <<"Carol">>, <<"Blocked">>, now, uuid4(k + 3)),
       demo_task(<<"Improve", " ", "dashboards">>,
                 <<"Add", " ", "filters", " ", "and", " ", "summaries">>,
                 <<"Dana">>, <<"In Progress">>, now, uuid4(k + 4)),
       demo_task(<<"Ship", " ", "v1">>,
                 <<"Cut", " ", "scope", " ", "and", " ", "release">>,
                 <<"Eve">>, <<"Completed">>, now, uuid4(k + 5)) >>

seed_demo_tasks ==
    /\ CanCall
    /\ ops' = ops + 1
    /\ session_keys' = session_keys \cup {TASKS_KEY}
    /\ tasks_df' = demo(isoformat(clock), uuid_count)
    /\ uuid_count' = uuid_count + 5
    /\ ret' = Ret("seed_demo_tasks", <<>>, "None", <<>>)
    /\ UNCHANGED <<inactivity_threshold_days, csv_file, clock, pc, view>>

\* ---- the wall clock ----
Tick ==
    /\ clock < MaxClock
    /\ clock' = clock + 1
    /\ UNCHANGED <<session_keys, tasks_df, inactivity_threshold_days, csv_file,
                   uuid_count, ops, ret, pc, view>>

\* ---- derived views: with_derived_metrics(get_tasks_df()) ----
compute_task_age_days(created_at_iso, now) == days(now, fromisoformat(created_at_iso))

compute_inactivity_days(last_updated_iso, now) == days(now, fromisoformat(last_updated_iso))

at_risk_of_strict(inactivity, threshold) == inactivity > threshold

\* df["inactivity_days"] >= threshold
at_risk_of(inactivity, threshold) == inactivity >= threshold

\* (df["status"] != "Completed") & (df["age_days"] >= threshold * 2)
is_long_running_of(status, age, threshold) == status # <<"Completed">> /\ age >= threshold * 2

\* the call: the frame is copied; the empty frame is returned as it is
DeriveBegin ==
    /\ pc = "idle"
    /\ session_keys' = init_keys
    /\ inactivity_threshold_days' = init_threshold
    /\ tasks_df' = init_tasks_df
    /\ view' = [EmptyView EXCEPT !.rows = init_tasks_df]
    /\ pc' = IF init_tasks_df = <<>> THEN "derived" ELSE "age"
    /\ UNCHANGED <<csv_file, clock, uuid_count, ops, ret>>

\* df["created_at"].apply(compute_task_age_days): one row, with its own reading of the clock
DeriveAge ==
    /\ pc = "age"
    /\ LET k == Len(view.age_days) + 1 IN
       IF ~IsIso(view.rows[k].created_at)
       THEN /\ view' = EmptyView          \* fromisoformat raises
            /\ pc' = "idle"
       ELSE /\ view' = [view EXCEPT !.age_days =
                           Append(@, compute_task_age_days(view.rows[k].created_at, clock))]
            /\ pc' = IF k = Len(view.rows) THEN "inactivity" ELSE "age"
    /\ UNCHANGED <<session_keys, tasks_df, inactivity_threshold_days, csv_file, clock,
                   uuid_count, ops, ret>>

\* df["last_updated_at"].apply(compute_inactivity_days), likewise
DeriveInactivity ==
    /\ pc = "inactivity"
    /\ LET k == Len(view.inactivity_days) + 1 IN
       IF ~IsIso(view.rows[k].last_updated_at)
       THEN /\ view' = EmptyView
            /\ pc' = "idle"
       ELSE /\ view' = [view EXCEPT !.inactivity_days =
                           Append(@, compute_inactivity_days(view.rows[k].last_updated_at, clock))]
            /\ pc' = IF k = Len(view.rows) THEN "flags" ELSE "inactivity"
    /\ UNCHANGED <<session_keys, tasks_df, inactivity_threshold_days, csv_file, clock,
                   uuid_count, ops, ret>>

\* the threshold is read once, then the three flag columns are computed
DeriveFlags ==
    /\ pc = "flags"
    /\ LET threshold == get_inactivity_threshold_days
           n == Len(view.rows) IN
       view' = [view EXCEPT
                  !.at_risk = [i \in 1..n |-> at_risk_of(view.inactivity_days[i], threshold)],
                  !.is_blocked = [i \in 1..n |-> view.rows[i].status = <<"Blocked">>],
                  !.is_long_running =
                      [i \in 1..n |-> is_long_running_of(view.rows[i].status,
                                                          view.age_days[i], threshold)]]
    /\ session_keys' = init_keys
    /\ inactivity_threshold_days' = init_threshold
    /\ tasks_df' = init_tasks_df
    /\ pc' = "derived"
    /\ UNCHANGED <<csv_file, clock, uuid_count, ops, ret>>

\* the caller has taken the view
DeriveReturn ==
    /\ pc = "derived"
    /\ pc' = "idle"
    /\ view' = EmptyView
    /\ UNCHANGED <<session_keys, tasks_df, inactivity_threshold_days, csv_file, clock,
                   uuid_count, ops, ret>>

\* ---- the session ----
CreateStep ==
    \E t \in CreateTitles, d \in CreateDescriptions, o \in CreateOwners, s \in CreateStatuses :
        create_task(t, d, o, s)

UpdateStep ==
    \E id \in TaskIdInputs, t \in UpdateTitles, d \in UpdateDescriptions,
       o \in UpdateOwners, s \in UpdateStatuses :
        update_task(id, t, d, o, s)

SetThresholdStep == \E d \in ThresholdInputs : set_inactivity_threshold_days(d)

PlaceCsvFileStep == \E f \in ExternalFiles : PlaceCsvFile(f)

\* the store and its persistence
Next ==
    \/ CreateStep
    \/ UpdateStep
    \/ SetThresholdStep
    \/ reset_all_tasks
    \/ save_tasks_to_csv
    \/ load_tasks_from_csv
    \/ PlaceCsvFileStep
    \/ seed_demo_tasks
    \/ Tick

Spec == Init /\ [][Next]_vars

\* ---- the derived view as a function of the frame, the threshold and the clock ----
\* a row as create_task and update_task leave it: created, then last updated no earlier
derive_row(k, status, created, updated) ==
    [task_id |-> uuid4(k), title |-> <<"a">>, description |-> <<>>, owner |-> <<"o">>,
     status |-> status, created_at |-> isoformat(created), last_updated_at |-> isoformat(updated)]

DeriveFrames(now) ==
    UNION {
      {[k \in 1..n |-> derive_row(k, f[k][1], f[k][2], f[k][3])] :
          f \in [1..n -> {<<s, c, u>> : s \in Range(VALID_STATUSES), c \in 0..now, u \in 0..now}]}
      : n \in 0..MaxRows }

InitDerive ==
    /\ clock \in 0..MaxClock
    /\ tasks_df \in {df \in DeriveFrames(clock) :
                        \A k \in 1..Len(df) :
                            fromisoformat(df[k].created_at) <= fromisoformat(df[k].last_updated_at)}
    /\ session_keys = {TASKS_KEY, THRESHOLD_KEY}
    /\ inactivity_threshold_days = DEFAULT_INACTIVITY_THRESHOLD_DAYS
    /\ csv_file = NoFile
    /\ uuid_count = Len(tasks_df)
    /\ ops = 0
    /\ ret = Ret("start", <<>>, "None", <<>>)
    /\ pc = "idle"
    /\ view = EmptyView

NextDerive ==
    \/ SetThresholdStep
    \/ Tick
    \/ DeriveBegin
    \/ DeriveAge
    \/ DeriveInactivity
    \/ DeriveFlags
    \/ DeriveReturn

SpecDerive == InitDerive /\ [][NextDerive]_vars

\* ---- properties ----
\* the step is a call of the handler op
Called(op) == ops' = ops + 1 /\ ret'.op = op

task_ids(df) == {df[i].task_id : i \in 1..Len(df)}

EmptyAfterTrim(s) == s = <<>> \/ strip(s) = <<>>

\* the arguments with which update_task is to fail
UpdateMustFail(df, args) ==
    \/ args[1] \notin task_ids(df)
    \/ args[2] # None /\ EmptyAfterTrim(args[2])
    \/ args[4] # None /\ EmptyAfterTrim(args[4])
    \/ args[5] # None /\ args[5] \notin Range(VALID_STATUSES)

\* C1: whenever update_task fails (the task_id is not in the store, a supplied title or
\* owner is empty after trimming, or a supplied status is outside the enumeration), it
\* returns False and every field of every task, last_updated_at included, is as before.
C1_FailedUpdateLeavesStore ==
    [][ (Called("update_task") /\ (UpdateMustFail(tasks_df, ret'.args) \/ ret'.value = "False"))
        => (ret'.value = "False" /\ tasks_df' = tasks_df) ]_vars

\* a call that failed on its status after a valid new title had been checked
C1_Witness ==
    /\ ret.op = "update_task"
    /\ ret.value = "False"
    /\ ret.messages = <<STATUS_MESSAGE>>
    /\ ret.args[2] # None
    /\ \E i \in 1..Len(tasks_df) :
          /\ tasks_df[i].task_id = ret.args[1]
          /\ tasks_df[i].title # strip(ret.args[2])

\* C2: in every state reachable by create, update, reset, CSV load and demo seeding,
\* every task of the store has a status of the enumeration.
C2_StatusInEnumeration ==
    \A i \in 1..Len(tasks_df) : tasks_df[i].status \in Range(VALID_STATUSES)

\* the arguments create_task is to accept
ValidCreate(args) ==
    /\ args[1] # None /\ ~EmptyAfterTrim(args[1])
    /\ args[2] # None
    /\ args[3] # None /\ ~EmptyAfterTrim(args[3])
    /\ args[4] \in Range(VALID_STATUSES)

\* C3: for every valid input (title and owner non-empty after trimming, status of the
\* enumeration, description not null) create_task appends exactly one task, leaves the
\* existing tasks as they were, and the new task has an id no existing task has and
\* created_at equal to last_updated_at.
C3_CreateAppendsFreshTask ==
    [][ (Called("create_task") /\ ValidCreate(ret'.args))
        => /\ Len(tasks_df') = Len(tasks_df) + 1
           /\ SubSeq(tasks_df', 1, Len(tasks_df)) = tasks_df
           /\ tasks_df'[Len(tasks_df')].task_id \notin task_ids(tasks_df)
           /\ tasks_df'[Len(tasks_df')].created_at = tasks_df'[Len(tasks_df')].last_updated_at
      ]_vars

\* a task created into a store that already held tasks
C3_Witness ==
    /\ ret.op = "create_task"
    /\ ret.value = "dict"
    /\ Len(tasks_df) >= 2
    /\ tasks_df[Len(tasks_df)].title = strip(ret.args[1])

\* C4: create_task with a title or owner empty after trimming, a status outside the
\* enumeration or a null description returns no task, reports validation errors and
\* leaves the tasks of the store unchanged.
C4_InvalidCreateRejected ==
    [][ (Called("create_task") /\ ~ValidCreate(ret'.args))
        => (ret'.value = "None" /\ ret'.messages # <<>> /\ tasks_df' = tasks_df) ]_vars

\* a rejected call on a store that holds a task: whitespace-only title, null description
C4_Witness ==
    /\ ret.op = "create_task"
    /\ ret.value = "None"
    /\ ret.args[1] = <<" ">>
    /\ ret.args[2] = None
    /\ tasks_df # <<>>

\* C5: after a successful update_task only the supplied fields of the task differ from
\* before (task_id, created_at, every field not supplied and all other tasks are
\* unchanged) and last_updated_at is no earlier than it was.
C5_UpdateChangesOnlySupplied ==
    [][ (Called("update_task") /\ ret'.value = "True")
        => /\ Len(tasks_df') = Len(tasks_df)
           /\ \E i \in 1..Len(tasks_df) :
                 /\ tasks_df[i].task_id = ret'.args[1]
                 /\ \A j \in 1..Len(tasks_df) : j # i => tasks_df'[j] = tasks_df[j]
                 /\ tasks_df'[i].task_id = tasks_df[i].task_id
                 /\ tasks_df'[i].created_at = tasks_df[i].created_at
                 /\ ret'.args[2] = None => tasks_df'[i].title = tasks_df[i].title
                 /\ ret'.args[3] = None => tasks_df'[i].description = tasks_df[i].description
                 /\ ret'.args[4] = None => tasks_df'[i].owner = tasks_df[i].owner
                 /\ ret'.args[5] = None => tasks_df'[i].status = tasks_df[i].status
                 /\ fromisoformat(tasks_df'[i].last_updated_at)
                       >= fromisoformat(tasks_df[i].last_updated_at)
      ]_vars

\* a later update of one of two tasks that supplied a title and no status
C5_Witness ==
    /\ ret.op = "update_task"
    /\ ret.value = "True"
    /\ ret.args[2] # None
    /\ ret.args[5] = None
    /\ Len(tasks_df) >= 2
    /\ \E i \in 1..Len(tasks_df) :
          /\ tasks_df[i].task_id = ret.args[1]
          /\ tasks_df[i].title = strip(ret.args[2])
          /\ fromisoformat(tasks_df[i].last_updated_at) > fromisoformat(tasks_df[i].created_at)

\* C6: within one pass of with_derived_metrics every age_days and inactivity_days is
\* computed against one and the same value of "now": some single reading of the clock
\* explains both columns of the finished view.
C6_SingleNow ==
    (pc = "derived" /\ view.rows # <<>>)
    => \E now \in 0..MaxClock :
          \A i \in 1..Len(view.rows) :
             /\ view.age_days[i] = days(now, fromisoformat(view.rows[i].created_at))
             /\ view.inactivity_days[i] = days(now, fromisoformat(view.rows[i].last_updated_at))

\* a frame as create_task and update_task build it: every field a text, title and owner
\* non-empty, status of the enumeration
BuiltByCreateAndUpdate(df) ==
    \A i \in 1..Len(df) :
       /\ \A c \in required_cols : df[i][c] # NaN
       /\ df[i].title # <<>> /\ df[i].owner # <<>>
       /\ df[i].status \in Range(VALID_STATUSES)

\* C7: a load that follows a successful save of a store built by create_task and
\* update_task (descriptions may be empty) leaves the store with the very tasks saved.
C7_RoundTrip ==
    [][ ( /\ ret.op = "save_tasks_to_csv" /\ ret.value = "True"
          /\ BuiltByCreateAndUpdate(tasks_df)
          /\ Called("load_tasks_from_csv") )
        => tasks_df' = tasks_df ]_vars

\* C8: set_inactivity_threshold_days(days) with days <= 0 reports an error and leaves the
\* stored threshold as it was; with days > 0 get_inactivity_threshold_days then returns days.
C8_SetThreshold ==
    [][ Called("set_inactivity_threshold_days")
        => /\ ret'.args[1] <= 0 =>
                /\ inactivity_threshold_days' = inactivity_threshold_days
                /\ (THRESHOLD_KEY \in session_keys') = (THRESHOLD_KEY \in session_keys)
                /\ ret'.messages # <<>>
           /\ ret'.args[1] > 0 => get_inactivity_threshold_days' = ret'.args[1]
      ]_vars

\* a rejected call that found a threshold the user had set before
C8_Witness ==
    /\ ret.op = "set_inactivity_threshold_days"
    /\ ret.args[1] <= 0
    /\ THRESHOLD_KEY \in session_keys
    /\ inactivity_threshold_days \notin {0, DEFAULT_INACTIVITY_THRESHOLD_DAYS}

\* C9: reset_all_tasks leaves the store without tasks and the stored inactivity threshold
\* exactly as it was.
C9_ResetKeepsThreshold ==
    [][ Called("reset_all_tasks")
        => /\ tasks_df' = <<>>
           /\ inactivity_threshold_days' = inactivity_threshold_days
           /\ (THRESHOLD_KEY \in session_keys') = (THRESHOLD_KEY \in session_keys)
      ]_vars

\* a reset of a session that had created a task and set its own threshold
C9_Witness ==
    /\ ret.op = "reset_all_tasks"
    /\ tasks_df = <<>>
    /\ uuid_count > 0
    /\ inactivity_threshold_days \notin {0, DEFAULT_INACTIVITY_THRESHOLD_DAYS}

\* C10: in a derived view at_risk is true exactly when inactivity_days >= the threshold
\* stored when the view is derived (so equal gives true, one less gives false), and
\* is_blocked is true exactly when the status is Blocked.
C10_AtRiskAndBlocked ==
    pc = "derived"
    => \A i \in 1..Len(view.at_risk) :
          /\ view.at_risk[i] = (view.inactivity_days[i] >= inactivity_threshold_days)
          /\ view.is_blocked[i] = (view.rows[i].status = <<"Blocked">>)

\* a view derived after the threshold was changed, with a row on the boundary, and a
\* Blocked row one day below it
C10_Witness ==
    /\ pc = "derived"
    /\ ret.op = "set_inactivity_threshold_days"
    /\ inactivity_threshold_days # DEFAULT_INACTIVITY_THRESHOLD_DAYS
    /\ \E i, j \in 1..Len(view.at_risk) :
          /\ view.inactivity_days[i] = inactivity_threshold_days
          /\ view.at_risk[i]
          /\ view.inactivity_days[j] = inactivity_threshold_days - 1
          /\ ~view.at_risk[j]
          /\ view.is_blocked[j]

\* ---- analytics: compute_health(get_tasks_df()) ----
\* Series.value_counts().to_dict(): label -> number of rows, missing values left out
value_counts(column) ==
    [l \in Range(column) \ {NaN} |-> Cardinality({i \in 1..Len(column) : column[i] = l})]

\* int(df[flag].sum()) if total else 0
flag_sum(total, flags) ==
    IF total # 0 THEN Cardinality({i \in 1..Len(flags) : flags[i]}) ELSE 0

\* the dict compute_health returns for the frame with_derived_metrics has built
health_of(v) ==
    LET total == Len(v.rows) IN
    [total |-> total,
     blocked |-> flag_sum(total, v.is_blocked),
     at_risk |-> flag_sum(total, v.at_risk),
     long_running |-> flag_sum(total, v.is_long_running),
     by_status |-> IF total # 0 THEN value_counts([i \in 1..total |-> v.rows[i].status])
                   ELSE value_counts(<<>>),
     by_owner |-> IF total # 0 THEN value_counts([i \in 1..total |-> v.rows[i].owner])
                  ELSE value_counts(<<>>)]

\* lines 12-27 of analytics.py, once with_derived_metrics has returned
compute_health ==
    /\ pc = "derived"
    /\ ret' = Ret("compute_health", <<>>, health_of(view), <<>>)
    /\ pc' = "health"
    /\ UNCHANGED <<session_keys, tasks_df, inactivity_threshold_days, csv_file, clock,
                   uuid_count, ops, view>>

\* the caller has taken the dict
HealthReturn ==
    /\ pc = "health"
    /\ pc' = "idle"
    /\ view' = EmptyView
    /\ UNCHANGED <<session_keys, tasks_df, inactivity_threshold_days, csv_file, clock,
                   uuid_count, ops, ret>>

\* the files of ExternalFiles, and one whose row has an empty status cell
HealthFiles ==
    ExternalFiles \cup
    {[exists |-> TRUE, columns |-> required_cols,
      rows |-> <<ExternalRow(required_cols, <<>>)>>]}

\* the frames load_tasks_from_csv leaves in the session for those files
ImportedFrames == {loaded_frame(f) : f \in {g \in HealthFiles : g.columns # {}}}

InitHealth ==
    /\ clock \in 0..MaxClock
    /\ tasks_df \in {df \in DeriveFrames(clock) :
                        \A k \in 1..Len(df) :
                            fromisoformat(df[k].created_at) <= fromisoformat(df[k].last_updated_at)}
                    \cup ImportedFrames
    /\ session_keys = {TASKS_KEY, THRESHOLD_KEY}
    /\ inactivity_threshold_days = DEFAULT_INACTIVITY_THRESHOLD_DAYS
    /\ csv_file = NoFile
    /\ uuid_count = Len(tasks_df)
    /\ ops = 0
    /\ ret = Ret("start", <<>>, "None", <<>>)
    /\ pc = "idle"
    /\ view = EmptyView

NextHealth ==
    \/ SetThresholdStep
    \/ Tick
    \/ DeriveBegin
    \/ DeriveAge
    \/ DeriveInactivity
    \/ DeriveFlags
    \/ compute_health
    \/ HealthReturn

SpecHealth == InitHealth /\ [][NextHealth]_vars

RECURSIVE SumCounts(_, _)
SumCounts(f, S) ==
    IF S = {} THEN 0
    ELSE LET l == CHOOSE x \in S : TRUE IN f[l] + SumCounts(f, S \ {l})

\* the labels of by_status and by_owner are counted right and the counts add up to total
FrequencyMap(f, column, total) ==
    /\ \A l \in DOMAIN f : f[l] = Cardinality({i \in 1..Len(column) : column[i] = l})
    /\ SumCounts(f, DOMAIN f) = total

\* C11: compute_health returns total = the number of tasks, blocked = the number with
\* status Blocked, at_risk = the number with inactivity_days >= threshold, long_running =
\* the number with status other than Completed and age_days >= 2 * threshold, and
\* by_status and by_owner as frequency maps whose counts each add up to total; for the
\* empty store the four counts are 0 and both maps are empty.
C11_ComputeHealth ==
    pc = "health"
    => LET h == ret.value
           n == Len(view.rows)
           threshold == inactivity_threshold_days
       IN  /\ h.total = n
           /\ h.blocked = Cardinality({i \in 1..n : view.rows[i].status = <<"Blocked">>})
           /\ h.at_risk = Cardinality({i \in 1..n : view.inactivity_days[i] >= threshold})
           /\ h.long_running =
                 Cardinality({i \in 1..n : /\ view.rows[i].status # <<"Completed">>
                                           /\ view.age_days[i] >= 2 * threshold})
           /\ FrequencyMap(h.by_status, [i \in 1..n |-> view.rows[i].status], n)
           /\ FrequencyMap(h.by_owner, [i \in 1..n |-> view.rows[i].owner], n)
           /\ n = 0 => (DOMAIN h.by_status = {} /\ DOMAIN h.by_owner = {})

=============================================================================
